---- MODULE Spec2Model ----
(***************************************************************************)
(* A model of the two scripts of the repository:                           *)
(*   src/ebay.py           class EBay (scrapper, write_to_file,            *)
(*                         write_to_console)                               *)
(*   src/restcountries.py  class RestCountries (_print_table,              *)
(*                         _get_request and the twelve entry points)       *)
(* Both scripts are single-threaded, so every method call is one atomic    *)
(* action.  What the outside world answers (the page the browser renders,  *)
(* a driver error, the HTTP response) is an input of the action.           *)
(***************************************************************************)
EXTENDS Integers, Sequences, FiniteSets, TLC

VARIABLES
    \* ---- src/ebay.py ----
    browser,     \* self.browser: "open" after __init__, "quit" after browser.quit()
    file,        \* the contents of temp.json (a string)
    op,          \* the method called last ("" before any call)
    url,         \* scrapper's url argument of the last call
    page,        \* what the browser rendered for the last scrapper call
    fault,       \* the step of the last scrapper call at which the driver failed ("none": at none)
    data,        \* the writers' data argument of the last call
    ret,         \* the value the last call returned (PyNone when it raised)
    exc,         \* the exception that left the last call ("" when it returned)
    reads,       \* the element reads the last scrapper call made, in order
    quitCalls,   \* the number of browser.quit() calls the last call made
    stdout,      \* what the last call printed, one entry per print
    repeated,    \* the last call repeats the one before it: write_to_file, same data
    \* ---- src/restcountries.py ----
    _fields,     \* RestCountries._fields, the class attribute all clients share
    entry,       \* the entry point called last ("" before any call)
    client,      \* the client instance that made the last call
    request,     \* the GETs the last call issued: <<[url, params]>>
    response,    \* the response the last call received
    rc_ret,      \* the last entry point's outcome: "True", "False" or the exception raised
    table        \* the rows the last call's _print_table rendered (<<>> when none)

ebayVars == <<browser, file, op, url, page, fault, data, ret, exc, reads,
              quitCalls, stdout, repeated>>
rcVars == <<_fields, entry, client, request, response, rc_ret, table>>
vars == <<ebayVars, rcVars>>

(***************************************************************************)
(* Bounds of the model.                                                    *)
(***************************************************************************)
MaxImgs == 2     \* carousel images on a page
MaxRows == 2     \* elements of a response's JSON array

(***************************************************************************)
(* Python values.  A value carries its type, as in Python; json.dumps and   *)
(* truthiness branch on it.                                                *)
(***************************************************************************)
Str(s) == <<"str", s>>
List(l) == <<"list", l>>
Dict(pairs) == <<"dict", pairs>>
PySet(l) == <<"set", l>>
PyNone == <<"NoneType", <<>>>>
TypeOf(v) == v[1]
ValOf(v) == v[2]

(***************************************************************************)
(* json.dumps(data, indent=4) on the values above (src/ebay.py:51, 63).    *)
(* A str becomes a quoted string, None becomes null, a list and a dict are *)
(* laid out one item per line, indented by four spaces per nesting level,  *)
(* in the order of the list or dict.  Any other type raises TypeError.     *)
(***************************************************************************)
RECURSIVE Serializable(_)
Serializable(v) ==
    CASE TypeOf(v) = "str" -> TRUE
      [] TypeOf(v) = "NoneType" -> TRUE
      [] TypeOf(v) = "list" -> \A i \in 1..Len(ValOf(v)) : Serializable(ValOf(v)[i])
      [] TypeOf(v) = "dict" -> \A i \in 1..Len(ValOf(v)) : Serializable(ValOf(v)[i][2])
      [] OTHER -> FALSE

RECURSIVE Indent(_)
Indent(level) == IF level = 0 THEN "" ELSE "    " \o Indent(level - 1)

RECURSIVE JsonItems(_, _, _, _)
RECURSIVE JsonDumps(_, _)
JsonDumps(v, level) ==
    CASE TypeOf(v) = "str" -> "\"" \o ValOf(v) \o "\""
      [] TypeOf(v) = "NoneType" -> "null"
      [] TypeOf(v) = "list" ->
            IF Len(ValOf(v)) = 0 THEN "[]"
            ELSE "[" \o JsonItems(ValOf(v), 1, level + 1, FALSE) \o "\n" \o Indent(level) \o "]"
      [] TypeOf(v) = "dict" ->
            IF Len(ValOf(v)) = 0 THEN "{}"
            ELSE "{" \o JsonItems(ValOf(v), 1, level + 1, TRUE) \o "\n" \o Indent(level) \o "}"

JsonItems(items, i, level, keyed) ==
    IF i > Len(items) THEN ""
    ELSE (IF i = 1 THEN "\n" ELSE ",\n") \o Indent(level)
         \o (IF keyed THEN "\"" \o items[i][1] \o "\": " \o JsonDumps(items[i][2], level)
                      ELSE JsonDumps(items[i], level))
         \o JsonItems(items, i + 1, level, keyed)

\* The exception json.dumps raises on data ("" when it returns).
DumpsRaises(d) == IF Serializable(d) THEN "" ELSE "TypeError"

(***************************************************************************)
(* EBay.write_to_file and EBay.write_to_console (src/ebay.py:42-65).       *)
(***************************************************************************)
path_file == "temp.json"

\* open(self.path_file, "w"): the file is truncated.  (OpenAppend: the file
\* opened with mode "a" instead, its old contents kept.)
OpenAppend(old) == old
OpenW(old) == ""

\* The except clause of both writers: except json.JSONDecodeError.
Handled(e) == e = "JSONDecodeError"

\* What a writer does with the exception e of json.dumps: the handler prints a
\* diagnostic and the method returns; any other exception leaves the method.
WriterOutcome(e, printed) ==
    IF e = "" THEN [exc |-> "", stdout |-> printed]
    ELSE IF Handled(e) THEN [exc |-> "", stdout |-> <<"JSONDecodeError " \o e>>]
    ELSE [exc |-> e, stdout |-> <<>>]

FileAfterWrite(old, d) ==
    IF DumpsRaises(d) = "" THEN OpenW(old) \o JsonDumps(d, 0) ELSE OpenW(old)

(***************************************************************************)
(* The pages and driver failures EBay.scrapper may meet.                   *)
(***************************************************************************)
TEST_URL == "https://www.ebay.com/itm/404265004322"
Urls == {TEST_URL, "https://www.ebay.com/itm/1"}
ImgSrcs == {"img1.jpg", "img2.jpg"}
TitleText == "Phone"
PriceText == "US $10.00"
SellerTitle == "shop"
ShippingText == "Free"

SeqsUpTo(S, n) == UNION {[1..k -> S] : k \in 0..n}

\* WebDriverWait(self.browser, 10): the wait for the title element.
WaitTimeout == 10
\* When the title element becomes present, in the wait's time units; a delay
\* past the timeout stands for every later time and for never.
TitleDelays == {0, WaitTimeout, WaitTimeout + 1}

\* title: when the title element becomes present; zoom, price, seller,
\* shipping: the element is on the page; imgs: the data-zoom-src of the
\* carousel images inside the zoom container, in page order.
Pages ==
    {p \in [title : TitleDelays, zoom : BOOLEAN, imgs : SeqsUpTo(ImgSrcs, MaxImgs),
            price : BOOLEAN, seller : BOOLEAN, shipping : BOOLEAN] :
        ~p.zoom => p.imgs = <<>>}
NoPage == [title |-> 0, zoom |-> FALSE, imgs |-> <<>>,
           price |-> FALSE, seller |-> FALSE, shipping |-> FALSE]

\* The driver calls of the try block, in the order of the code.
Steps == <<"wait", "name", "zoom", "imgs", "price", "seller", "shipping">>
\* "get" is browser.get(url), before the try block; "none" is no driver failure.
Faults == {"none", "get"} \cup {Steps[i] : i \in 1..Len(Steps)}

(***************************************************************************)
(* EBay.scrapper (src/ebay.py:67-106).                                     *)
(***************************************************************************)
\* Whether the element a step looks up is missing from the page.
Absent(p, step) ==
    CASE step = "wait" -> p.title > WaitTimeout
      [] step = "zoom" -> ~p.zoom
      [] step = "price" -> ~p.price
      [] step = "seller" -> ~p.seller
      [] step = "shipping" -> ~p.shipping
      [] OTHER -> FALSE

\* The exception a step of the try block raises ("" when it succeeds):
\* WebDriverWait.until raises TimeoutException, find_element raises
\* NoSuchElementException, a failing driver raises WebDriverException.
StepRaises(p, f, step) ==
    IF f = step THEN "WebDriverException"
    ELSE IF Absent(p, step)
         THEN (IF step = "wait" THEN "TimeoutException" ELSE "NoSuchElementException")
         ELSE ""

\* The inner try of lines 79-83: a TimeoutException of the wait is printed and
\* replaced by NoSuchElementException.
\* (TimeoutUnconverted: the inner handler missing, the exception passed on.)
TimeoutUnconverted(e) ==
    [exc |-> e, stdout |-> <<>>]
InnerExcept(e) ==
    IF e = "TimeoutException"
    THEN [exc |-> "NoSuchElementException", stdout |-> <<"TimeoutException for page">>]
    ELSE [exc |-> e, stdout |-> <<>>]

\* The index of the first step of the try block that raises, 0 when none does.
RECURSIVE FirstRaise(_, _, _)
FirstRaise(p, f, i) ==
    IF i > Len(Steps) THEN 0
    ELSE IF StepRaises(p, f, Steps[i]) # "" THEN i
    ELSE FirstRaise(p, f, i + 1)

\* Lines 86-88: one entry per carousel image, in page order.
\* (PathImgReversed: the entries prepended instead of appended.)
PathImgReversed(p) == [i \in 1..Len(p.imgs) |-> Str(p.imgs[Len(p.imgs) + 1 - i])]
PathImg(p) == [i \in 1..Len(p.imgs) |-> Str(p.imgs[i])]

\* Lines 94-99: the record of a page all of whose elements were read.
Record(u, p) ==
    Dict(<< <<"name", Str(TitleText)>>,
            <<"path_img", List(PathImg(p))>>,
            <<"current_url", Str(u)>>,
            <<"price", Str(PriceText)>>,
            <<"seller", Str(SellerTitle)>>,
            <<"shipping_cost", Str(ShippingText)>> >>)

\* The try block, lines 78-99: the reads made, the exception that leaves it
\* and what it printed.
TryBlock(p, f) ==
    LET k == FirstRaise(p, f, 1)
        inner == IF k = 1 THEN InnerExcept(StepRaises(p, f, Steps[1]))
                 ELSE [exc |-> IF k = 0 THEN "" ELSE StepRaises(p, f, Steps[k]),
                       stdout |-> <<>>]
    IN  [reads |-> IF k = 0 THEN Steps ELSE SubSeq(Steps, 1, k),
         exc |-> inner.exc,
         stdout |-> inner.stdout]

\* Lines 100-104: except NoSuchElementException prints and returns None; the
\* else branch returns data; any other exception leaves the method.
\* (PartialRecord: a record returned although an element was not found.)
PartialRecord(t, u, p) ==
    IF t.exc = "" \/ t.exc = "NoSuchElementException"
    THEN [ret |-> Record(u, p), exc |-> "", stdout |-> t.stdout]
    ELSE [ret |-> PyNone, exc |-> t.exc, stdout |-> t.stdout]
OuterExcept(t, u, p) ==
    IF t.exc = "" THEN [ret |-> Record(u, p), exc |-> "", stdout |-> t.stdout]
    ELSE IF t.exc = "NoSuchElementException"
    THEN [ret |-> PyNone, exc |-> "",
          stdout |-> Append(t.stdout, "NoSuchElementException: ")]
    ELSE [ret |-> PyNone, exc |-> t.exc, stdout |-> t.stdout]

\* The whole call.  browser.get(url) on line 76 stands before the try block:
\* when it raises (the driver fails, or the session was quit by an earlier
\* call), the finally clause of lines 105-106 is never entered.
ScrapperResult(b, u, p, f) ==
    IF b # "open" \/ f = "get"
    THEN [ret |-> PyNone, exc |-> "WebDriverException", stdout |-> <<>>,
          reads |-> <<>>, quitCalls |-> 0, browser |-> b, fault |-> "get"]
    ELSE LET t == TryBlock(p, f)
             o == OuterExcept(t, u, p)
         IN  [ret |-> o.ret, exc |-> o.exc, stdout |-> o.stdout,
              reads |-> t.reads, quitCalls |-> 1, browser |-> "quit", fault |-> f]

(***************************************************************************)
(* The records the writers are called with: the records scrapper can       *)
(* return, and a dict json.dumps cannot serialize (it holds a set).        *)
(***************************************************************************)
FullPage(imgs) == [title |-> 0, zoom |-> TRUE, imgs |-> imgs,
                   price |-> TRUE, seller |-> TRUE, shipping |-> TRUE]
GoodData == {Record(TEST_URL, FullPage(imgs)) :
                imgs \in {<<>>, <<"img1.jpg">>, <<"img1.jpg", "img2.jpg">>}}
BadData == Dict(<< <<"name", Str(TitleText)>>, <<"path_img", PySet(<<"img1.jpg">>)>> >>)
WriterData == GoodData \cup {BadData}

\* temp.json before the program runs: empty or absent, or left by an earlier run.
OldFiles == {"", "old contents"}

(***************************************************************************)
(* The actions of src/ebay.py.                                             *)
(***************************************************************************)
scrapper(u, p, f) ==
    LET r == ScrapperResult(browser, u, p, f)
    IN  /\ op' = "scrapper"
        /\ url' = u
        /\ page' = p
        /\ fault' = r.fault
        /\ data' = PyNone
        /\ ret' = r.ret
        /\ exc' = r.exc
        /\ stdout' = r.stdout
        /\ reads' = r.reads
        /\ quitCalls' = r.quitCalls
        /\ browser' = r.browser
        /\ repeated' = FALSE
        /\ UNCHANGED <<file, rcVars>>

write_to_file(d) ==
    LET o == WriterOutcome(DumpsRaises(d), <<>>)
    IN  /\ op' = "write_to_file"
        /\ data' = d
        /\ file' = FileAfterWrite(file, d)
        /\ ret' = PyNone
        /\ exc' = o.exc
        /\ stdout' = o.stdout
        /\ repeated' = (op = "write_to_file" /\ data = d)
        /\ url' = ""
        /\ page' = NoPage
        /\ fault' = "none"
        /\ reads' = <<>>
        /\ quitCalls' = 0
        /\ UNCHANGED <<browser, rcVars>>

write_to_console(d) ==
    LET o == WriterOutcome(DumpsRaises(d),
                           IF DumpsRaises(d) = "" THEN <<JsonDumps(d, 0)>> ELSE <<>>)
    IN  /\ op' = "write_to_console"
        /\ data' = d
        /\ ret' = PyNone
        /\ exc' = o.exc
        /\ stdout' = o.stdout
        /\ repeated' = FALSE
        /\ url' = ""
        /\ page' = NoPage
        /\ fault' = "none"
        /\ reads' = <<>>
        /\ quitCalls' = 0
        /\ UNCHANGED <<browser, file, rcVars>>

\* A session that was quit fails at browser.get, and a failed browser.get
\* renders no page.
NextEBay ==
    \/ \E u \in Urls :
        \E f \in (IF browser = "open" THEN Faults ELSE {"get"}) :
        \E p \in (IF f = "get" THEN {NoPage} ELSE Pages) : scrapper(u, p, f)
    \/ \E d \in WriterData : write_to_file(d)
    \/ \E d \in WriterData : write_to_console(d)

(***************************************************************************)
(* src/restcountries.py: the inputs.                                       *)
(***************************************************************************)
_main_url == "https://restcountries.com/v3.1"
DefaultFields == "fields" :> <<"name", "capital", "flags">>

\* The client instances; _fields is an attribute of the class, not of them.
Clients == {"country", "other"}

\* Records as the API returns them for fields=name,capital,flags.
Antarctica == [name |-> [common |-> "Antarctica", official |-> "Antarctica"],
               capital |-> <<>>,
               flags |-> [png |-> "aq.png", svg |-> "aq.svg"]]
Estonia == [name |-> [common |-> "Estonia", official |-> "Republic of Estonia"],
            capital |-> <<"Tallinn">>,
            flags |-> [png |-> "ee.png", svg |-> "ee.svg"]]
SouthAfrica == [name |-> [common |-> "South Africa", official |-> "Republic of South Africa"],
                capital |-> <<"Pretoria", "Bloemfontein", "Cape Town">>,
                flags |-> [png |-> "za.png", svg |-> "za.svg"]]
Countries == <<Antarctica, Estonia, SouthAfrica>>

\* The JSON arrays of a response: n records, starting anywhere in Countries.
Array(start, n) == [i \in 1..n |-> Countries[((start + i - 2) % Len(Countries)) + 1]]
Arrays == {Array(s, n) : s \in 1..Len(Countries), n \in 0..MaxRows}

\* What response.json() finds: an array, a single object, or no JSON at all.
Undecodable == <<"undecodable", <<>>>>
Bodies == {List(a) : a \in Arrays}
          \cup {Dict(Estonia)}
          \cup {Undecodable}
\* requests.codes.ok
HttpOk == 200
\* An error response carries a JSON array or text that is no JSON.
ErrorBodies == {List(Array(2, 1)), Undecodable}
Responses == [status_code : {HttpOk}, body : Bodies]
             \cup [status_code : {404}, body : ErrorBodies]
NoResponse == [status_code |-> 0, body |-> PyNone]

Names == {"Germany", "Peru"}
PyInt(n) == <<"int", n>>
Codes == {Str("col"), PyInt(170)}
CodeLists == {<<"col", "pe">>, <<"ee">>}

(***************************************************************************)
(* Python helpers.                                                         *)
(***************************************************************************)
\* bool(v), as `if res:` evaluates it.  (IsNotNone: `if res is not None:`.)
IsNotNone(v) == TypeOf(v) # "NoneType"
Truthy(v) ==
    CASE TypeOf(v) = "NoneType" -> FALSE
      [] TypeOf(v) = "list" -> Len(ValOf(v)) > 0
      [] TypeOf(v) = "dict" -> DOMAIN ValOf(v) # {}
      [] OTHER -> TRUE

\* str(n) of a non-negative int.
DigitStr(d) == <<"0", "1", "2", "3", "4", "5", "6", "7", "8", "9">>[d + 1]
RECURSIVE IntToStr(_)
IntToStr(n) == IF n < 10 THEN DigitStr(n) ELSE IntToStr(n \div 10) \o DigitStr(n % 10)

\* "/".join(parts)
RECURSIVE Join(_)
Join(parts) ==
    IF Len(parts) = 1 THEN parts[1]
    ELSE Join(SubSeq(parts, 1, Len(parts) - 1)) \o "/" \o parts[Len(parts)]

\* d[k] = v on a dict: the dict itself is changed, its other keys stay.
\* (SetItemFresh: the dict replaced by {k: v}.)
SetItemFresh(d, k, v) == k :> v
SetItem(d, k, v) == [x \in DOMAIN d \cup {k} |-> IF x = k THEN v ELSE d[x]]

(***************************************************************************)
(* RestCountries._print_table (src/restcountries.py:21-41): the rows of    *)
(* the table, one per record, with the columns name, capital, flags.       *)
(***************************************************************************)
\* (CapitalEmptyString: an empty list rendered as the empty string.)
CapitalEmptyString(capital) ==
    IF Len(capital) = 0 THEN ""
    ELSE IF Len(capital) = 1 THEN capital[1]
    ELSE capital
Capital(capital) ==
    IF Len(capital) = 0 THEN "None"
    ELSE IF Len(capital) = 1 THEN capital[1]
    ELSE capital

TableRow(country) ==
    [name |-> country.name.common,
     capital |-> Capital(country.capital),
     flags |-> country.flags.png]

_print_table(rows) == [i \in 1..Len(rows) |-> TableRow(rows[i])]

(***************************************************************************)
(* RestCountries._get_request (src/restcountries.py:43-72).  f is          *)
(* self._fields at the time of the call, params is None or a dict.         *)
(***************************************************************************)
_get_request(f, u, params, resp) ==
    [request |-> << [url |-> u,
                     params |-> IF TypeOf(params) = "NoneType" THEN f ELSE ValOf(params)] >>,
     result |-> IF resp.status_code = HttpOk
                THEN (IF TypeOf(resp.body) = "undecodable" THEN PyNone ELSE resp.body)
                ELSE PyNone]

(***************************************************************************)
(* The entry points (src/restcountries.py:74-283).  Each builds its url,   *)
(* calls _get_request once and, when the result is truthy, prints the      *)
(* table and returns True; otherwise it returns False.  f is _fields as    *)
(* the entry point leaves it, params what it passes to _get_request, wraps *)
(* whether it wraps a result that is no list into one (get_by_code).       *)
(***************************************************************************)
\* Lines 83-86 and their copies: the value returned and the table printed.
\* Iterating a dict in _print_table yields its keys, and country["name"] on a
\* str raises TypeError.
Outcome(res, wraps) ==
    IF Truthy(res)
    THEN IF TypeOf(res) = "list"
         THEN [ret |-> "True", table |-> _print_table(ValOf(res))]
         ELSE IF wraps
              THEN [ret |-> "True", table |-> _print_table(<<ValOf(res)>>)]
              ELSE [ret |-> "TypeError", table |-> <<>>]
    ELSE [ret |-> "False", table |-> <<>>]

EntryPoint(self, name, f, u, params, wraps, resp) ==
    LET g == _get_request(f, u, params, resp)
        o == Outcome(g.result, wraps)
    IN  /\ entry' = name
        /\ client' = self
        /\ _fields' = f
        /\ request' = g.request
        /\ response' = resp
        /\ rc_ret' = o.ret
        /\ table' = o.table
        /\ UNCHANGED ebayVars

get_all(self, resp) ==
    EntryPoint(self, "get_all", _fields, Join(<<_main_url, "all">>), PyNone, FALSE, resp)

get_by_name(self, name, resp) ==
    EntryPoint(self, "get_by_name", _fields, Join(<<_main_url, "name", name>>),
               PyNone, FALSE, resp)

get_by_fullname(self, fullname, resp) ==
    LET f == SetItem(_fields, "fullText", "true")
    IN  EntryPoint(self, "get_by_fullname", f, Join(<<_main_url, "name", fullname>>),
                   Dict(f), FALSE, resp)

get_by_code(self, code, resp) ==
    LET c == IF TypeOf(code) = "int" THEN IntToStr(ValOf(code)) ELSE ValOf(code)
    IN  EntryPoint(self, "get_by_code", _fields, Join(<<_main_url, "alpha", c>>),
                   PyNone, TRUE, resp)

get_by_listcodes(self, code, resp) ==
    LET f == SetItem(_fields, "codes", code)
    IN  EntryPoint(self, "get_by_listcodes", f, Join(<<_main_url, "alpha">>),
                   Dict(f), FALSE, resp)

get_by_currency(self, code, resp) ==
    EntryPoint(self, "get_by_currency", _fields, Join(<<_main_url, "currency", code>>),
               PyNone, FALSE, resp)

get_by_demonym(self, demonym, resp) ==
    EntryPoint(self, "get_by_demonym", _fields, Join(<<_main_url, "demonym", demonym>>),
               PyNone, FALSE, resp)

get_by_lang(self, lang, resp) ==
    EntryPoint(self, "get_by_lang", _fields, Join(<<_main_url, "lang", lang>>),
               PyNone, FALSE, resp)

get_by_capital(self, capital, resp) ==
    EntryPoint(self, "get_by_capital", _fields, Join(<<_main_url, "capital", capital>>),
               PyNone, FALSE, resp)

get_by_region(self, region, resp) ==
    EntryPoint(self, "get_by_region", _fields, Join(<<_main_url, "region", region>>),
               PyNone, FALSE, resp)

get_by_subregion(self, subregion, resp) ==
    EntryPoint(self, "get_by_subregion", _fields,
               Join(<<_main_url, "subregion", subregion>>), PyNone, FALSE, resp)

get_by_translation(self, translation, resp) ==
    EntryPoint(self, "get_by_translation", _fields,
               Join(<<_main_url, "translation", translation>>), PyNone, FALSE, resp)

NextCountries ==
    \E self \in Clients, resp \in Responses :
        \/ get_all(self, resp)
        \/ \E name \in Names : get_by_name(self, name, resp)
        \/ \E fullname \in Names : get_by_fullname(self, fullname, resp)
        \/ \E code \in Codes : get_by_code(self, code, resp)
        \/ \E code \in CodeLists : get_by_listcodes(self, code, resp)
        \/ get_by_currency(self, "cop", resp)
        \/ get_by_demonym(self, "peruvian", resp)
        \/ get_by_lang(self, "spanish", resp)
        \/ get_by_capital(self, "tallinn", resp)
        \/ get_by_region(self, "europe", resp)
        \/ get_by_subregion(self, "Northern Europe", resp)
        \/ get_by_translation(self, "germany", resp)

(***************************************************************************)
(* The state after construction: EBay() has started the browser, no        *)
(* method of either class has been called.                                 *)
(***************************************************************************)
Init ==
    /\ browser = "open"
    /\ file \in OldFiles
    /\ op = ""
    /\ url = ""
    /\ page = NoPage
    /\ fault = "none"
    /\ data = PyNone
    /\ ret = PyNone
    /\ exc = ""
    /\ reads = <<>>
    /\ quitCalls = 0
    /\ stdout = <<>>
    /\ repeated = FALSE
    /\ _fields = DefaultFields
    /\ entry = ""
    /\ client = ""
    /\ request = <<>>
    /\ response = NoResponse
    /\ rc_ret = ""
    /\ table = <<>>

SpecEBay == Init /\ [][NextEBay]_vars
SpecCountries == Init /\ [][NextCountries]_vars

(***************************************************************************)
(* Helpers of the properties.                                              *)
(***************************************************************************)
Keys(d) == [i \in 1..Len(ValOf(d)) |-> ValOf(d)[i][1]]
Get(d, k) == ValOf(d)[CHOOSE i \in 1..Len(ValOf(d)) : ValOf(d)[i][1] = k][2]
RecordKeys == <<"name", "path_img", "current_url", "price", "seller", "shipping_cost">>

\* The last scrapper call met no driver failure: browser.get worked and every
\* lookup either found its element or did not.
NoDriverFault == op = "scrapper" /\ fault = "none"
TitlePresent == page.title <= WaitTimeout
OthersPresent == page.zoom /\ page.price /\ page.seller /\ page.shipping

\* The records _print_table was given by the last entry point.
Rendered ==
    IF TypeOf(response.body) = "list" THEN ValOf(response.body)
    ELSE <<ValOf(response.body)>>

(***************************************************************************)
(* Properties of src/ebay.py, checked under SpecEBay.                      *)
(***************************************************************************)

\* C2: scrapper tears the browser down (browser.quit) on every exit path of
\* the call: a record returned, None returned, or an error raised at any
\* step, browser.get(url) included.  Violated: an error of browser.get leaves
\* the method before the try block, so the finally clause never runs.
C2_QuitOnEveryExit == op = "scrapper" => browser = "quit"

\* C3: a writer given a record json.dumps cannot serialize prints a
\* diagnostic and returns normally.  Violated: json.dumps raises TypeError,
\* the handler catches only json.JSONDecodeError.
C3_SerializationFailureReported ==
    (op \in {"write_to_file", "write_to_console"} /\ ~Serializable(data))
        => (exc = "" /\ stdout # <<>>)

\* C5: no partial records.  When the title is present and one of the other
\* required elements (carousel container, price, seller card, shipping cost)
\* is absent, scrapper never returns a dict, and unless the driver itself
\* fails it returns None without raising.
C5_NoPartialRecord ==
    (op = "scrapper" /\ fault # "get" /\ TitlePresent /\ ~OthersPresent)
        => /\ ret = PyNone
           /\ fault = "none" => exc = ""
C5_Witness ==
    /\ NoDriverFault /\ TitlePresent
    /\ page.zoom /\ page.price /\ page.seller /\ ~page.shipping
    /\ ret = PyNone /\ exc = ""
    /\ reads = Steps

\* C6: when the title element does not become present within the wait,
\* scrapper returns None, no exception reaches the caller, no element is
\* read after the wait, and browser.quit is called exactly once.
C6_TitleTimeout ==
    (NoDriverFault /\ ~TitlePresent)
        => /\ ret = PyNone
           /\ exc = ""
           /\ reads = <<"wait">>
           /\ quitCalls = 1
           /\ browser = "quit"
C6_Witness ==
    /\ NoDriverFault /\ ~TitlePresent /\ OthersPresent
    /\ ret = PyNone /\ quitCalls = 1
    /\ stdout = <<"TimeoutException for page", "NoSuchElementException: ">>

\* C7: the file sink is idempotent.  A write_to_file of a serializable
\* record leaves temp.json holding exactly json.dumps(record, indent=4),
\* whatever it held before, so a second call with the same record leaves the
\* contents of the first call unchanged.
C7_FileSinkIdempotent ==
    [][(op' = "write_to_file" /\ Serializable(data'))
        => /\ file' = JsonDumps(data', 0)
           /\ (op = "write_to_file" /\ data = data') => file' = file]_vars
C7_Witness ==
    /\ op = "write_to_file" /\ repeated /\ exc = ""
    /\ Len(ValOf(Get(data, "path_img"))) = 2
    /\ file = JsonDumps(data, 0)

\* C8: on a page with the title and every other required element, scrapper
\* returns a record with exactly the keys name, path_img, current_url, price,
\* seller, shipping_cost, whose current_url is the url argument and whose
\* path_img has one entry per carousel image, in page order.
C8_FullRecord ==
    (NoDriverFault /\ TitlePresent /\ OthersPresent)
        => /\ exc = ""
           /\ TypeOf(ret) = "dict"
           /\ Keys(ret) = RecordKeys
           /\ Get(ret, "current_url") = Str(url)
           /\ TypeOf(Get(ret, "path_img")) = "list"
           /\ Len(ValOf(Get(ret, "path_img"))) = Len(page.imgs)
           /\ \A i \in 1..Len(page.imgs) :
                ValOf(Get(ret, "path_img"))[i] = Str(page.imgs[i])
C8_Witness ==
    /\ NoDriverFault /\ TitlePresent /\ OthersPresent
    /\ url # TEST_URL
    /\ page.imgs = <<"img2.jpg", "img1.jpg">>
    /\ TypeOf(ret) = "dict"
(***************************************************************************)
(* Properties of src/restcountries.py, checked under SpecCountries.        *)
(***************************************************************************)

\* C1: per-call parameter isolation.  A call of an entry point other than
\* get_by_fullname that follows a call of get_by_fullname sends request
\* parameters without fullText.  Violated: get_by_fullname writes fullText
\* into the shared _fields, which every later GET sends.
C1_ParameterIsolation ==
    [][(entry = "get_by_fullname" /\ entry' # "get_by_fullname")
        => \A i \in 1..Len(request') : "fullText" \notin DOMAIN request'[i].params]_vars

\* C4: the operation status of every entry point.  Exactly one GET is issued
\* per call.  A 200 response whose body is a non-empty JSON array yields True
\* and a table with one row per element; a 200 response with an empty array
\* or an undecodable body, and any other status, yield False and no table.
C4_StatusMapping ==
    entry # "" =>
        /\ Len(request) = 1
        /\ (response.status_code = HttpOk /\ TypeOf(response.body) = "list"
                /\ Len(ValOf(response.body)) > 0)
            => (rc_ret = "True" /\ Len(table) = Len(ValOf(response.body)))
        /\ (\/ response.status_code # HttpOk
            \/ TypeOf(response.body) = "undecodable"
            \/ (TypeOf(response.body) = "list" /\ Len(ValOf(response.body)) = 0))
            => (rc_ret = "False" /\ table = <<>>)
C4_Witness ==
    /\ entry = "get_by_lang"
    /\ response.status_code = HttpOk
    /\ TypeOf(response.body) = "list"
    /\ Len(ValOf(response.body)) = MaxRows
    /\ rc_ret = "True"
    /\ Len(table) = MaxRows

\* C9: _print_table renders one row per record, in input order; the name is
\* name.common, the flag is flags.png, and the capital is "None" for an empty
\* list, the sole element of a one-element list, and the list itself when it
\* has more elements.
C9_CapitalNormalization ==
    rc_ret = "True" =>
        /\ Len(table) = Len(Rendered)
        /\ \A i \in 1..Len(Rendered) :
            /\ table[i].name = Rendered[i].name.common
            /\ table[i].flags = Rendered[i].flags.png
            /\ Len(Rendered[i].capital) = 0 => table[i].capital = "None"
            /\ Len(Rendered[i].capital) = 1 => table[i].capital = Rendered[i].capital[1]
            /\ Len(Rendered[i].capital) > 1 => table[i].capital = Rendered[i].capital
C9_Witness ==
    /\ rc_ret = "True"
    /\ Len(Rendered) = 2
    /\ Rendered[1].capital = <<>>
    /\ Rendered[2].capital = <<"Tallinn">>
    /\ table[1].capital = "None"
    /\ table[2].capital = "Tallinn"

\* C10: the shared _fields always maps fields to [name, capital, flags], so
\* every GET carries that selection; the only keys ever added are fullText
\* and codes, and a key once added is never removed.
FieldsIntact ==
    /\ "fields" \in DOMAIN _fields
    /\ _fields["fields"] = <<"name", "capital", "flags">>
    /\ DOMAIN _fields \subseteq {"fields", "fullText", "codes"}
    /\ \A i \in 1..Len(request) :
        /\ "fields" \in DOMAIN request[i].params
        /\ request[i].params["fields"] = <<"name", "capital", "flags">>
C10_SharedFieldsInvariant ==
    /\ []FieldsIntact
    /\ [][DOMAIN _fields \subseteq DOMAIN _fields']_vars
C10_Witness ==
    /\ DOMAIN _fields = {"fields", "fullText", "codes"}
    /\ entry = "get_by_capital"
    /\ client = "other"
    /\ DOMAIN request[1].params = {"fields", "fullText", "codes"}

====
